---------------------------- MODULE Spec2Model ----------------------------
(***************************************************************************)
(* A model of dir_crawler's concurrent probing engine:                     *)
(*   generate_urls   (src/src/main_update.rs 32-52)                        *)
(*   fuzz_directory  (src/src/main_update.rs 120-272,                      *)
(*                    duplicated in src/src/dir-crawler-fix.rs 17-169)     *)
(* Strings are sequences of one-character strings, so that trimming,       *)
(* concatenation and comparison are computed and not assumed.              *)
(***************************************************************************)
EXTENDS Integers, Sequences, FiniteSets, Bags, TLC

VARIABLES
    config,       \* FuzzerConfig: url, threads, status_codes, extensions,
                  \* verbose, silent
    wordlist,     \* the lines of the wordlist file
    entries,      \* the lines fuzz_directory has read (<<>> before)
    orch,         \* position of fuzz_directory itself
    next,         \* index of the next entry of `for path in entries`
    joined,       \* number of handles already awaited
    held,         \* fuzz_directory holds an acquired permit not yet moved
    permits,      \* available permits of the semaphore
    lock,         \* holder of the found_paths mutex, <<>> when free
    found_paths,  \* the shared HashSet of (url, status), as a bag
    recorded,     \* history: the pairs given to found_paths.insert, as a bag
    bar_len,      \* length given to ProgressBar::new
    progress,     \* position of the progress bar
    report,       \* what the results display printed
    pc,           \* position of each spawned task
    todo,         \* per task: indices of test_urls not yet iterated
    sent,         \* history, per task: the indices it sent a request for, as a bag
    cur,          \* per task: index of the URL being probed, 0 if none
    st,           \* per task: status of the response in hand, 0 if none
    responses,    \* history: (url, outcome) of every request that returned
    gen_args,     \* generate_urls called alone: its arguments
    gen_out,      \* generate_urls called alone: its result
    matches       \* main: the command-line arguments as clap hands them over
                  \* (<<>> where fuzz_directory is entered with a given config)

vars == <<config, wordlist, entries, orch, next, joined, held, permits, lock,
          found_paths, recorded, bar_len, progress, report, pc, todo, sent,
          cur, st, responses, gen_args, gen_out, matches>>

scanVars == <<config, wordlist, entries, orch, next, joined, held, permits,
              lock, found_paths, recorded, bar_len, progress, report, pc, todo,
              sent, cur, st, responses>>

-----------------------------------------------------------------------------
(* Bounds *)

\* Scan: lines of the wordlist, extensions, permits, and URLs probed in all
MaxWords == 2
MaxExts == 1
MaxThreads == 2
MaxUnits == 4
\* generate_urls alone: trailing slashes of the base URL, extensions
MaxSlashes == 2
MaxGenExts == 2

-----------------------------------------------------------------------------
(* Strings *)

Range(s) == {s[k] : k \in 1..Len(s)}

\* Byte value of the characters the model uses (str::cmp compares bytes).
Byte(c) ==
    CASE c = "." -> 46
      [] c = "/" -> 47
      [] c = "a" -> 97
      [] c = "b" -> 98
      [] c = "h" -> 104
      [] c = "p" -> 112
      [] c = "q" -> 113

\* a.0.cmp(&b.0) = Less : lexicographic order on the bytes
RECURSIVE StrLess(_, _)
StrLess(a, b) ==
    IF b = <<>> THEN FALSE
    ELSE IF a = <<>> THEN TRUE
    ELSE IF Byte(Head(a)) < Byte(Head(b)) THEN TRUE
    ELSE IF Byte(Head(a)) > Byte(Head(b)) THEN FALSE
    ELSE StrLess(Tail(a), Tail(b))

\* Mutant of trim_end_matches: one trailing character is removed, not all
\* (str::strip_suffix).
strip_suffix_once(s, c) ==
    IF s # <<>> /\ s[Len(s)] = c THEN SubSeq(s, 1, Len(s) - 1) ELSE s

\* str::trim_end_matches('/')
RECURSIVE trim_end_matches(_, _)
trim_end_matches(s, c) ==
    IF s # <<>> /\ s[Len(s)] = c
    THEN trim_end_matches(SubSeq(s, 1, Len(s) - 1), c)
    ELSE s

-----------------------------------------------------------------------------
(* generate_urls *)

\* Mutant of insert: the URLs are pushed on a Vec, duplicates included.
vec_push(urls, u) == Append(urls, u)

\* HashSet::insert, the set kept as a duplicate-free sequence (the order in
\* which a HashSet is iterated is not this order: see Send).
insert(urls, u) == IF u \in Range(urls) THEN urls ELSE Append(urls, u)

RECURSIVE add_extensions(_, _, _, _)
add_extensions(urls, base_url, path, extensions) ==
    IF extensions = <<>> THEN urls
    ELSE LET ext == Head(extensions)
             u1  == base_url \o <<"/">> \o path \o <<".">> \o ext
             u2  == base_url \o <<"/">> \o path \o <<".">> \o ext \o <<"/">>
         IN  add_extensions(insert(insert(urls, u1), u2),
                            base_url, path, Tail(extensions))

generate_urls(base_url, path, extensions) ==
    LET base == trim_end_matches(base_url, "/")
        u1   == base \o <<"/">> \o path
        u2   == base \o <<"/">> \o path \o <<"/">>
    IN  add_extensions(insert(insert(<<>>, u1), u2), base, path, extensions)


-----------------------------------------------------------------------------
(* Inputs *)

SeqsUpTo(S, n) == UNION {[1..k -> S] : k \in 0..n}

Candidates == {<<"a">>, <<"b">>}
ExtNames == {<<"p">>}
WordLists == SeqsUpTo(Candidates, MaxWords)
ExtLists == SeqsUpTo(ExtNames, MaxExts)
BaseUrls == {<<"h", "/">>}
Statuses == {200, 404}
StatusFilters == {<<>>, <<200>>}

\* A request ends with a status, or with 0: a reqwest::Error (timeout,
\* connection, DNS).
Outcomes == Statuses \cup {0}

Tasks == 1..Len(wordlist)

-----------------------------------------------------------------------------
(* fuzz_directory: helpers *)

\* entries.len() * (1 + config.extensions.len() + 1)
total_paths(n_entries, n_extensions) == n_entries * (1 + n_extensions + 1)

\* Mutant of accepts: the filter is not consulted.
accepts_all(status_codes, status) == TRUE

\* config.status_codes.is_empty() || config.status_codes.contains(&status)
accepts(status_codes, status) ==
    status_codes = <<>> \/ status \in Range(status_codes)

\* Mutant of hash_insert: the pair is added whether or not it is there already.
push_always(set, x) == set (+) SetToBag({x})

\* HashSet::insert on found_paths. The set is kept as a bag, in which keeping
\* an element twice can be told from keeping it once.
hash_insert(set, x) == IF BagIn(x, set) THEN set ELSE set (+) SetToBag({x})

\* HashSet::is_empty
is_empty(set) == BagToSet(set) = {}

\* test_urls of the task spawned for entries[t]
test_urls(t) == generate_urls(config.url, entries[t], config.extensions)

Perms(S) == {f \in [1..Cardinality(S) -> S] : \A x \in S : \E k \in DOMAIN f : f[k] = x}

MinUrl(found) ==
    CHOOSE u \in {p[1] : p \in found} :
        \A p \in found : p[1] = u \/ StrLess(u, p[1])

\* Mutant of sorted_paths: the findings are printed as the HashSet yields them.
unsorted_paths(found) == Perms(found)

\* sorted_paths after sort_by(|a, b| a.0.cmp(&b.0)): the sort is stable and
\* compares the URLs only, and the HashSet is iterated in an arbitrary order,
\* so findings of one URL come out in any order.
RECURSIVE sorted_paths(_)
sorted_paths(found) ==
    IF found = {} THEN {<<>>}
    ELSE LET u     == MinUrl(found)
             group == {p \in found : p[1] = u}
         IN  {g \o r : g \in Perms(group), r \in sorted_paths(found \ group)}

NoReport == [kind |-> "none", paths |-> <<>>]

-----------------------------------------------------------------------------
(* fuzz_directory: the state machine *)

Init ==
    /\ config \in [url : BaseUrls, threads : 0..MaxThreads,
                   status_codes : StatusFilters, extensions : ExtLists,
                   verbose : BOOLEAN, silent : BOOLEAN]
    /\ wordlist \in WordLists
    /\ Len(wordlist) * (2 + 2 * Len(config.extensions)) <= MaxUnits
    /\ entries = <<>>
    /\ orch = "client"
    /\ next = 1
    /\ joined = 0
    /\ held = FALSE
    /\ permits = 0
    /\ lock = <<>>
    /\ found_paths = EmptyBag
    /\ recorded = EmptyBag
    /\ bar_len = 0
    /\ progress = 0
    /\ report = NoReport
    /\ pc = [t \in Tasks |-> "idle"]
    /\ todo = [t \in Tasks |-> {}]
    /\ sent = [t \in Tasks |-> EmptyBag]
    /\ cur = [t \in Tasks |-> 0]
    /\ st = [t \in Tasks |-> 0]
    /\ responses = {}
    /\ gen_args = <<>>
    /\ gen_out = <<>>
    /\ matches = <<>>

\* Client::builder().timeout(..).build()?
BuildClient ==
    /\ orch = "client"
    /\ orch' \in {"wordlist", "err_startup"}
    /\ UNCHANGED <<config, wordlist, entries, next, joined, held, permits,
                   lock, found_paths, recorded, bar_len, progress, report, pc, todo, sent,
                   cur, st, responses, gen_args, gen_out, matches>>

\* Mutant of ReadWordlist: a wordlist that cannot be read is reported as a
\* scan without findings before the error is returned.
ReadWordlist_reports ==
    /\ orch = "wordlist"
    /\ \/ /\ orch' = "spawn"
          /\ entries' = wordlist
          /\ bar_len' = total_paths(Len(wordlist), Len(config.extensions))
          /\ permits' = config.threads
          /\ UNCHANGED report
       \/ /\ orch' = "err_startup"
          /\ report' = [kind |-> "nofindings", paths |-> <<>>]
          /\ UNCHANGED <<entries, bar_len, permits>>
    /\ UNCHANGED <<config, wordlist, next, joined, held, lock, found_paths,
                   recorded, progress, pc, todo, sent, cur, st, responses,
                   gen_args, gen_out, matches>>

\* File::open(..)? ; reader.lines().collect()? ; ProgressBar::new(total_paths)
\* ; Semaphore::new(config.threads)
ReadWordlist ==
    /\ orch = "wordlist"
    /\ \/ /\ orch' = "spawn"
          /\ entries' = wordlist
          /\ bar_len' = total_paths(Len(wordlist), Len(config.extensions))
          /\ permits' = config.threads
       \/ /\ orch' = "err_startup"
          /\ UNCHANGED <<entries, bar_len, permits>>
    /\ UNCHANGED <<config, wordlist, next, joined, held, lock, found_paths, recorded,
                   progress, report, pc, todo, sent, cur, st, responses, gen_args,
                   gen_out, matches>>

\* Mutant of Acquire: the permit is taken without waiting for one to be free.
Acquire_no_wait ==
    /\ orch = "spawn"
    /\ next <= Len(entries)
    /\ ~held
    /\ permits' = permits - 1
    /\ held' = TRUE
    /\ UNCHANGED <<config, wordlist, entries, orch, next, joined, lock,
                   found_paths, recorded, bar_len, progress, report, pc, todo, sent,
                   cur, st, responses, gen_args, gen_out, matches>>

\* let permit = Arc::clone(&semaphore).acquire_owned().await;
Acquire ==
    /\ orch = "spawn"
    /\ next <= Len(entries)
    /\ ~held
    /\ permits > 0
    /\ permits' = permits - 1
    /\ held' = TRUE
    /\ UNCHANGED <<config, wordlist, entries, orch, next, joined, lock,
                   found_paths, recorded, bar_len, progress, report, pc, todo, sent, cur, st,
                   responses, gen_args, gen_out, matches>>

\* Mutant of Spawn: the task is spawned first and given no permit (the
\* acquire moved into the task).
Spawn_unpermitted ==
    /\ orch = "spawn"
    /\ next <= Len(entries)
    /\ ~held
    /\ pc' = [pc EXCEPT ![next] = "loop"]
    /\ todo' = [todo EXCEPT ![next] = 1..Len(test_urls(next))]
    /\ next' = next + 1
    /\ UNCHANGED <<config, wordlist, entries, orch, joined, held, permits,
                   lock, found_paths, recorded, bar_len, progress, report,
                   sent, cur, st, responses, gen_args, gen_out, matches>>

\* task::spawn(async move { let _permit = permit; let test_urls = .. }) ;
\* handles.push(handle)
Spawn ==
    /\ orch = "spawn"
    /\ held
    /\ held' = FALSE
    /\ pc' = [pc EXCEPT ![next] = "loop"]
    /\ todo' = [todo EXCEPT ![next] = 1..Len(test_urls(next))]
    /\ next' = next + 1
    /\ UNCHANGED <<sent, config, wordlist, entries, orch, joined, permits, lock,
                   found_paths, recorded, bar_len, progress, report, cur, st, responses,
                   gen_args, gen_out, matches>>

\* Mutant of Send: a URL is requested a second time before it is left.
Send_again(t) ==
    /\ pc[t] = "loop"
    /\ \E k \in todo[t] :
        /\ cur' = [cur EXCEPT ![t] = k]
        /\ todo' = [todo EXCEPT ![t] =
                        IF CopiesIn(k, sent[t]) = 0 THEN @ ELSE @ \ {k}]
        /\ sent' = [sent EXCEPT ![t] = @ (+) SetToBag({k})]
    /\ pc' = [pc EXCEPT ![t] = "inflight"]
    /\ UNCHANGED <<config, wordlist, entries, orch, next, joined, held,
                   permits, lock, found_paths, recorded, bar_len, progress,
                   report, st, responses, gen_args, gen_out, matches>>

\* for test_url in test_urls { .. request.send() : the Vec comes from a HashSet,
\* so the next URL is any of those left
Send(t) ==
    /\ pc[t] = "loop"
    /\ \E k \in todo[t] :
        /\ cur' = [cur EXCEPT ![t] = k]
        /\ todo' = [todo EXCEPT ![t] = @ \ {k}]
        /\ sent' = [sent EXCEPT ![t] = @ (+) SetToBag({k})]
    /\ pc' = [pc EXCEPT ![t] = "inflight"]
    /\ UNCHANGED <<config, wordlist, entries, orch, next, joined, held,
                   permits, lock, found_paths, recorded, bar_len, progress, report, st,
                   responses, gen_args, gen_out, matches>>

\* Mutant of Respond: a failed request ends the task (request.send().await?).
Respond_abort(t) ==
    /\ pc[t] = "inflight"
    /\ \E o \in Outcomes :
        /\ responses' = responses \cup {<<test_urls(t)[cur[t]], o>>}
        /\ IF o = 0
           THEN /\ pc' = [pc EXCEPT ![t] = "done"]
                /\ permits' = permits + 1
                /\ UNCHANGED st
           ELSE /\ UNCHANGED permits
                /\ IF accepts(config.status_codes, o)
                   THEN /\ pc' = [pc EXCEPT ![t] = "lock"]
                        /\ st' = [st EXCEPT ![t] = o]
                   ELSE /\ pc' = [pc EXCEPT ![t] = "inc"]
                        /\ UNCHANGED st
    /\ UNCHANGED <<config, wordlist, entries, orch, next, joined, held, lock,
                   found_paths, recorded, bar_len, progress, report, todo, sent,
                   cur, gen_args, gen_out, matches>>

\* match request.send().await { Ok(response) => filter, print ; Err(e) => .. }
Respond(t) ==
    /\ pc[t] = "inflight"
    /\ \E o \in Outcomes :
        /\ responses' = responses \cup {<<test_urls(t)[cur[t]], o>>}
        /\ IF o # 0 /\ accepts(config.status_codes, o)
           THEN /\ pc' = [pc EXCEPT ![t] = "lock"]
                /\ st' = [st EXCEPT ![t] = o]
           ELSE /\ pc' = [pc EXCEPT ![t] = "inc"]
                /\ UNCHANGED st
    /\ UNCHANGED <<config, wordlist, entries, orch, next, joined, held,
                   permits, lock, found_paths, recorded, bar_len, progress, report,
                   todo, sent, cur, gen_args, gen_out, matches>>

\* if !config_clone.silent { println!(..) } in the Ok arm, for a status the
\* filter accepts; Err(e) if config_clone.verbose => println!(..)
prints(o) ==
    IF o = 0 THEN config.verbose
    ELSE accepts(config.status_codes, o) /\ ~config.silent

\* A println! of the match arms panics (stdout is gone): the task's future is
\* dropped where it stands, and with it _permit.
Panic(t) ==
    /\ pc[t] = "inflight"
    /\ \E o \in Outcomes :
        /\ prints(o)
        /\ responses' = responses \cup {<<test_urls(t)[cur[t]], o>>}
    /\ pc' = [pc EXCEPT ![t] = "panicked"]
    /\ permits' = permits + 1
    /\ UNCHANGED <<config, wordlist, entries, orch, next, joined, held, lock,
                   found_paths, recorded, bar_len, progress, report, todo, sent, cur, st,
                   gen_args, gen_out, matches>>

\* let mut paths = found_paths_clone.lock().await;
Lock(t) ==
    /\ pc[t] = "lock"
    /\ lock = <<>>
    /\ lock' = <<"task", t>>
    /\ pc' = [pc EXCEPT ![t] = "locked"]
    /\ UNCHANGED <<config, wordlist, entries, orch, next, joined, held,
                   permits, found_paths, recorded, bar_len, progress, report, todo, sent, cur,
                   st, responses, gen_args, gen_out, matches>>

\* Mutant of Insert: the guard is not dropped at the end of the block.
Insert_keep_lock(t) ==
    /\ pc[t] = "locked"
    /\ found_paths' = hash_insert(found_paths, <<test_urls(t)[cur[t]], st[t]>>)
    /\ recorded' = recorded (+) SetToBag({<<test_urls(t)[cur[t]], st[t]>>})
    /\ pc' = [pc EXCEPT ![t] = "inc"]
    /\ st' = [st EXCEPT ![t] = 0]
    /\ UNCHANGED <<config, wordlist, entries, orch, next, joined, held,
                   permits, lock, bar_len, progress, report, todo, sent, cur,
                   responses, gen_args, gen_out, matches>>

\* paths.insert((test_url.clone(), status.as_u16())); } the guard is dropped
Insert(t) ==
    /\ pc[t] = "locked"
    /\ found_paths' = hash_insert(found_paths, <<test_urls(t)[cur[t]], st[t]>>)
    /\ recorded' = recorded (+) SetToBag({<<test_urls(t)[cur[t]], st[t]>>})
    /\ lock' = <<>>
    /\ pc' = [pc EXCEPT ![t] = "inc"]
    /\ st' = [st EXCEPT ![t] = 0]
    /\ UNCHANGED <<config, wordlist, entries, orch, next, joined, held,
                   permits, bar_len, progress, report, todo, sent, cur, responses,
                   gen_args, gen_out, matches>>

\* Mutant of Inc: the bar advances only for a request that got a response
\* (progress_clone.inc(1) moved into the Ok arm).
Inc_on_response(t) ==
    /\ pc[t] = "inc"
    /\ progress' = IF \E o \in Statuses : <<test_urls(t)[cur[t]], o>> \in responses
                   THEN progress + 1 ELSE progress
    /\ pc' = [pc EXCEPT ![t] = "loop"]
    /\ cur' = [cur EXCEPT ![t] = 0]
    /\ UNCHANGED <<config, wordlist, entries, orch, next, joined, held,
                   permits, lock, found_paths, recorded, bar_len, report,
                   todo, sent, st, responses, gen_args, gen_out, matches>>

\* progress_clone.inc(1);
Inc(t) ==
    /\ pc[t] = "inc"
    /\ progress' = progress + 1
    /\ pc' = [pc EXCEPT ![t] = "loop"]
    /\ cur' = [cur EXCEPT ![t] = 0]
    /\ UNCHANGED <<config, wordlist, entries, orch, next, joined, held,
                   permits, lock, found_paths, recorded, bar_len, report, todo, sent, st,
                   responses, gen_args, gen_out, matches>>

\* Mutant of Finish: the permit is forgotten (mem::forget) and never returned.
Finish_leak(t) ==
    /\ pc[t] = "loop"
    /\ todo[t] = {}
    /\ pc' = [pc EXCEPT ![t] = "done"]
    /\ UNCHANGED <<config, wordlist, entries, orch, next, joined, held,
                   permits, lock, found_paths, recorded, bar_len, progress,
                   report, todo, sent, cur, st, responses, gen_args, gen_out, matches>>

\* Ok::<(), reqwest::Error>(()) : the task ends and _permit is dropped
Finish(t) ==
    /\ pc[t] = "loop"
    /\ todo[t] = {}
    /\ pc' = [pc EXCEPT ![t] = "done"]
    /\ permits' = permits + 1
    /\ UNCHANGED <<config, wordlist, entries, orch, next, joined, held, lock,
                   found_paths, recorded, bar_len, progress, report, todo, sent, cur, st,
                   responses, gen_args, gen_out, matches>>

\* the for loop over entries is over
StartJoin ==
    /\ orch = "spawn"
    /\ next > Len(entries)
    /\ orch' = "join"
    /\ UNCHANGED <<config, wordlist, entries, next, joined, held, permits,
                   lock, found_paths, recorded, bar_len, progress, report, pc, todo, sent,
                   cur, st, responses, gen_args, gen_out, matches>>

\* handle.await?? : the task ended normally
Join ==
    /\ orch = "join"
    /\ joined < Len(entries)
    /\ pc[joined + 1] = "done"
    /\ joined' = joined + 1
    /\ UNCHANGED <<config, wordlist, entries, orch, next, held, permits, lock,
                   found_paths, recorded, bar_len, progress, report, pc, todo, sent, cur, st,
                   responses, gen_args, gen_out, matches>>

\* Mutant of JoinError: the result of the handle is dropped (let _ =
\* handle.await;) and the loop goes on.
JoinError_ignored ==
    /\ orch = "join"
    /\ joined < Len(entries)
    /\ pc[joined + 1] = "panicked"
    /\ joined' = joined + 1
    /\ UNCHANGED <<config, wordlist, entries, orch, next, held, permits, lock,
                   found_paths, recorded, bar_len, progress, report, pc, todo,
                   sent, cur, st, responses, gen_args, gen_out, matches>>

\* handle.await?? : the task panicked, the JoinError is returned
JoinError ==
    /\ orch = "join"
    /\ joined < Len(entries)
    /\ pc[joined + 1] = "panicked"
    /\ orch' = "err_join"
    /\ UNCHANGED <<config, wordlist, entries, next, joined, held, permits,
                   lock, found_paths, recorded, bar_len, progress, report, pc, todo, sent,
                   cur, st, responses, gen_args, gen_out, matches>>

\* Mutant of LockReport: the results display does not wait for the handles.
LockReport_early ==
    /\ orch = "join"
    /\ lock = <<>>
    /\ lock' = <<"orch", 0>>
    /\ orch' = "report"
    /\ UNCHANGED <<config, wordlist, entries, next, joined, held, permits,
                   found_paths, recorded, bar_len, progress, report, pc, todo,
                   sent, cur, st, responses, gen_args, gen_out, matches>>

\* let found_paths_guard = found_paths.lock().await;
LockReport ==
    /\ orch = "join"
    /\ joined = Len(entries)
    /\ lock = <<>>
    /\ lock' = <<"orch", 0>>
    /\ orch' = "report"
    /\ UNCHANGED <<config, wordlist, entries, next, joined, held, permits,
                   found_paths, recorded, bar_len, progress, report, pc, todo, sent, cur, st,
                   responses, gen_args, gen_out, matches>>

\* Mutant of Emit: the 'no paths found' lines are printed only when not silent.
Emit_quiet ==
    /\ orch = "report"
    /\ IF is_empty(found_paths)
       THEN report' = IF config.silent THEN NoReport
                      ELSE [kind |-> "nofindings", paths |-> <<>>]
       ELSE \E s \in sorted_paths(BagToSet(found_paths)) :
                report' = [kind |-> "found", paths |-> s]
    /\ lock' = <<>>
    /\ orch' = "done"
    /\ UNCHANGED <<config, wordlist, entries, next, joined, held, permits,
                   found_paths, recorded, bar_len, progress, pc, todo, sent,
                   cur, st, responses, gen_args, gen_out, matches>>

\* if found_paths_guard.is_empty() { .. } else { sort, print } ;
\* progress_bar.finish_with_message(..) ; Ok(())
Emit ==
    /\ orch = "report"
    /\ IF is_empty(found_paths)
       THEN report' = [kind |-> "nofindings", paths |-> <<>>]
       ELSE \E s \in sorted_paths(BagToSet(found_paths)) :
                report' = [kind |-> "found", paths |-> s]
    /\ lock' = <<>>
    /\ orch' = "done"
    /\ UNCHANGED <<config, wordlist, entries, next, joined, held, permits,
                   found_paths, recorded, bar_len, progress, pc, todo, sent, cur, st,
                   responses, gen_args, gen_out, matches>>

Next ==
    \/ BuildClient
    \/ ReadWordlist
    \/ Acquire
    \/ Spawn
    \/ StartJoin
    \/ Join
    \/ JoinError
    \/ LockReport
    \/ Emit
    \/ \E t \in Tasks : Send(t)
    \/ \E t \in Tasks : Respond(t)
    \/ \E t \in Tasks : Panic(t)
    \/ \E t \in Tasks : Lock(t)
    \/ \E t \in Tasks : Insert(t)
    \/ \E t \in Tasks : Inc(t)
    \/ \E t \in Tasks : Finish(t)

Spec == Init /\ [][Next]_vars

\* The tokio runtime runs every task that can run, and a request that was
\* sent returns: as long as some step of the scan is possible, one is taken.
\* Liveness is checked for the scans that print in both match arms (so that
\* a task can panic in either) under a non-empty filter.
InitLive ==
    /\ Init
    /\ config.verbose
    /\ ~config.silent
    /\ config.status_codes # <<>>

SpecLive == InitLive /\ [][Next]_vars /\ WF_vars(Next)

-----------------------------------------------------------------------------
(* main: the configuration is parsed from the command line, then
   fuzz_directory(config) runs *)

U16_MAX == 65535
\* usize::MAX is 2^64 - 1 on the 64-bit targets; the checker's integers end
\* here, and no thread count that is drawn comes near either.
USIZE_MAX == 2147483647

Digits == {"0", "1", "2", "3", "4", "5", "6", "7", "8", "9"}

DigitValue(c) ==
    CASE c = "0" -> 0 [] c = "1" -> 1 [] c = "2" -> 2 [] c = "3" -> 3
      [] c = "4" -> 4 [] c = "5" -> 5 [] c = "6" -> 6 [] c = "7" -> 7
      [] c = "8" -> 8 [] c = "9" -> 9

\* The digit loop of from_str_radix(.., 10): a character that is no digit, or
\* a value above the type's maximum, is an Err. Option and Result are
\* sequences of length at most one.
RECURSIVE digits_value(_, _, _)
digits_value(s, acc, max) ==
    IF s = <<>> THEN <<acc>>
    ELSE IF Head(s) \notin Digits THEN <<>>
    ELSE IF acc * 10 + DigitValue(Head(s)) > max THEN <<>>
    ELSE digits_value(Tail(s), acc * 10 + DigitValue(Head(s)), max)

\* str::parse::<uN>().ok() : empty and a lone sign are errors, a leading '+'
\* is accepted, nothing is trimmed
from_str(s, max) ==
    IF s = <<>> THEN <<>>
    ELSE IF Head(s) = "+"
         THEN IF Tail(s) = <<>> THEN <<>> ELSE digits_value(Tail(s), 0, max)
         ELSE digits_value(s, 0, max)

\* str::split(sep) : the pieces between the separators, empty ones included
RECURSIVE split(_, _)
split(s, sep) ==
    IF \A k \in 1..Len(s) : s[k] # sep THEN <<s>>
    ELSE LET i == CHOOSE k \in 1..Len(s) :
                      s[k] = sep /\ \A j \in 1..(k - 1) : s[j] # sep
         IN  <<SubSeq(s, 1, i - 1)>> \o split(SubSeq(s, i + 1, Len(s)), sep)

\* str::trim : white space is removed at both ends
RECURSIVE trim(_)
trim(s) ==
    IF s = <<>> THEN <<>>
    ELSE IF Head(s) = " " THEN trim(Tail(s))
    ELSE IF s[Len(s)] = " " THEN trim(SubSeq(s, 1, Len(s) - 1))
    ELSE s

\* str::to_lowercase, on the letters that are drawn
to_lowercase(s) == [k \in 1..Len(s) |-> IF s[k] = "P" THEN "p" ELSE s[k]]

\* .map(|e| e.trim().to_lowercase()).filter(|e| !e.is_empty()).collect()
RECURSIVE trimmed_non_empty(_)
trimmed_non_empty(pieces) ==
    IF pieces = <<>> THEN <<>>
    ELSE LET e == to_lowercase(trim(Head(pieces)))
         IN  (IF e = <<>> THEN <<>> ELSE <<e>>)
                 \o trimmed_non_empty(Tail(pieces))

\* matches.get_one("extensions").map(..).unwrap_or_else(Vec::new)
parse_extensions(arg) ==
    IF arg = <<>> THEN <<>> ELSE trimmed_non_empty(split(arg[1], ","))

\* .filter_map(|c| c.parse().ok()).collect() into Vec<u16>
RECURSIVE filter_map_parse(_)
filter_map_parse(pieces) ==
    IF pieces = <<>> THEN <<>>
    ELSE from_str(Head(pieces), U16_MAX) \o filter_map_parse(Tail(pieces))

DefaultStatusCodes == <<200, 204, 301, 302, 307, 401, 403>>

\* Mutant of parse_status_codes: a list of which nothing parses falls back to
\* the default codes.
parse_status_codes_or_default(arg) ==
    IF arg = <<>> \/ filter_map_parse(split(arg[1], ",")) = <<>>
    THEN DefaultStatusCodes
    ELSE filter_map_parse(split(arg[1], ","))

\* matches.get_one("status-codes").map(|codes| codes.split(',')
\*     .filter_map(..).collect()).unwrap_or_else(|| vec![200, ..])
parse_status_codes(arg) ==
    IF arg = <<>> THEN DefaultStatusCodes
    ELSE filter_map_parse(split(arg[1], ","))

DefaultThreads == 20

\* Mutant of parse_threads: a thread count of 0 is taken as unparseable.
parse_threads_positive(arg) ==
    IF from_str(arg, USIZE_MAX) \in {<<>>, <<0>>} THEN DefaultThreads
    ELSE from_str(arg, USIZE_MAX)[1]

\* matches.get_one("threads").and_then(|t| t.parse().ok()).unwrap_or(20)
parse_threads(arg) ==
    IF from_str(arg, USIZE_MAX) = <<>> THEN DefaultThreads
    ELSE from_str(arg, USIZE_MAX)[1]

\* -t: clap's default_value "20" when the option is absent
ThreadArgs == {<<"2", "0">>, <<"0">>, <<"1">>, <<"x">>}
\* -c: absent (<<>>), or the string that was given
StatusArgs ==
    {<<>>, <<<<>>>>, <<<<"x">>>>, <<<<"x", ",", "y">>>>, <<<<"2", "0", "0">>>>,
     <<<<"x", ",", "2", "0", "0">>>>}
\* -x: absent, or the string that was given
ExtensionArgs == {<<>>, <<<<" ", "P", ",", " ">>>>}

InitMain ==
    /\ matches \in [url : BaseUrls, extensions : ExtensionArgs,
                    threads : ThreadArgs, status_codes : StatusArgs,
                    verbose : {FALSE}, silent : {FALSE}]
    /\ wordlist \in WordLists
    /\ Len(wordlist) * (2 + 2 * Len(parse_extensions(matches.extensions)))
           <= MaxUnits
    /\ config = <<>>
    /\ entries = <<>>
    /\ orch = "main"
    /\ next = 1
    /\ joined = 0
    /\ held = FALSE
    /\ permits = 0
    /\ lock = <<>>
    /\ found_paths = EmptyBag
    /\ recorded = EmptyBag
    /\ bar_len = 0
    /\ progress = 0
    /\ report = NoReport
    /\ pc = [t \in Tasks |-> "idle"]
    /\ todo = [t \in Tasks |-> {}]
    /\ sent = [t \in Tasks |-> EmptyBag]
    /\ cur = [t \in Tasks |-> 0]
    /\ st = [t \in Tasks |-> 0]
    /\ responses = {}
    /\ gen_args = <<>>
    /\ gen_out = <<>>

\* main, from the argument matches to the call fuzz_directory(config); the
\* URL given is an http URL, which validate_url returns as it is.
Main ==
    /\ orch = "main"
    /\ config' = [url |-> matches.url,
                  threads |-> parse_threads(matches.threads),
                  status_codes |-> parse_status_codes(matches.status_codes),
                  extensions |-> parse_extensions(matches.extensions),
                  verbose |-> matches.verbose,
                  silent |-> matches.silent]
    /\ orch' = "client"
    /\ UNCHANGED <<wordlist, entries, next, joined, held, permits, lock,
                   found_paths, recorded, bar_len, progress, report, pc, todo,
                   sent, cur, st, responses, gen_args, gen_out, matches>>

NextMain ==
    \/ Main
    \/ Next

SpecMain == InitMain /\ [][NextMain]_vars

-----------------------------------------------------------------------------
(* generate_urls called alone *)

RECURSIVE Slashes(_)
Slashes(k) == IF k = 0 THEN <<>> ELSE <<"/">> \o Slashes(k - 1)

GenBases == {<<"h">> \o Slashes(k) : k \in 0..MaxSlashes}
GenPaths == {<<>>, <<"a">>, <<"b">>, <<"/", "a">>, <<"a", ".", "p">>}
GenExtNames == {<<>>, <<"p">>, <<"q">>, <<"p", "/">>}
GenExtLists == SeqsUpTo(GenExtNames, MaxGenExts)

InitGen ==
    /\ gen_args \in [base_url : GenBases, path : GenPaths,
                     extensions : GenExtLists]
    /\ gen_out = <<>>
    /\ config = [url |-> <<"h">>, threads |-> 0, status_codes |-> <<>>,
                 extensions |-> <<>>, verbose |-> FALSE, silent |-> FALSE]
    /\ wordlist = <<>>
    /\ entries = <<>>
    /\ orch = "none"
    /\ next = 1
    /\ joined = 0
    /\ held = FALSE
    /\ permits = 0
    /\ lock = <<>>
    /\ found_paths = EmptyBag
    /\ recorded = EmptyBag
    /\ bar_len = 0
    /\ progress = 0
    /\ report = NoReport
    /\ pc = <<>>
    /\ todo = <<>>
    /\ sent = <<>>
    /\ cur = <<>>
    /\ st = <<>>
    /\ responses = {}
    /\ matches = <<>>

CallGenerate ==
    /\ gen_args # <<>>
    /\ gen_out = <<>>
    /\ gen_out' = generate_urls(gen_args.base_url, gen_args.path,
                                gen_args.extensions)
    /\ UNCHANGED <<gen_args, matches, scanVars>>

NextGen == CallGenerate

SpecGen == InitGen /\ [][NextGen]_vars

-----------------------------------------------------------------------------
(* Claims *)

\* A task that has been spawned and has not ended: it holds its permit and is
\* somewhere between its first request and its last.
Running(t) == pc[t] \in {"loop", "inflight", "lock", "locked", "inc"}
Ended(t) == pc[t] \in {"done", "panicked"}
RunningTasks == {t \in Tasks : Running(t)}

\* The semaphore exists from ReadWordlist on.
SemaphoreCreated == orch \in {"spawn", "join", "report", "done", "err_join"}

\* C1 (permit conservation): for a thread count >= 1 and any wordlist, the
\* number of tasks that are probing is in every state at most config.threads.
C1_PermitConservation ==
    config.threads >= 1 => Cardinality(RunningTasks) <= config.threads

\* C1 witness: the limiter is saturated by two probing tasks while a third
\* cannot exist; both have a request in flight.
C1_Witness ==
    /\ config.threads = 2
    /\ Cardinality({t \in Tasks : pc[t] = "inflight"}) = 2

\* C2 (guaranteed permit release): a permit is away from the semaphore exactly
\* while the task it was acquired for is running (or fuzz_directory is about
\* to hand it to the task): it is returned when the task ends, however it
\* ends, and not before; once every task has ended all config.threads permits
\* are available.
C2_PermitRelease ==
    SemaphoreCreated =>
        /\ permits = config.threads - Cardinality(RunningTasks)
                                    - (IF held THEN 1 ELSE 0)
        /\ (next > Len(entries) /\ \A t \in Tasks : Ended(t))
               => permits = config.threads

\* C2 witness: every task has ended, one by returning and one by panicking,
\* after at least one failed request, and the permits are all back.
C2_Witness ==
    /\ SemaphoreCreated
    /\ next > Len(entries)
    /\ \E t \in Tasks : pc[t] = "done"
    /\ \E t \in Tasks : pc[t] = "panicked"
    /\ \A t \in Tasks : Ended(t)
    /\ \E r \in responses : r[2] = 0
    /\ permits = config.threads
    /\ config.threads >= 1

\* The responses the configured filter lets through, stated from the claim.
Passing ==
    {r \in responses :
        /\ r[2] # 0
        /\ \/ config.status_codes = <<>>
           \/ \E k \in 1..Len(config.status_codes) : config.status_codes[k] = r[2]}

\* C3 (filter correctness): a finding is always a response that was received
\* and that the filter lets through (empty filter: any status), and when the
\* scan has ended the findings are exactly those responses.
C3_FilterCorrect ==
    /\ BagToSet(found_paths) \subseteq Passing
    /\ orch = "done" => BagToSet(found_paths) = Passing

\* C3 witness: a finished scan under a non-empty filter in which a request
\* failed, a response was filtered out and another was recorded.
C3_Witness ==
    /\ orch = "done"
    /\ config.status_codes # <<>>
    /\ \E r \in responses : r[2] = 0
    /\ \E r \in responses : r[2] = 404
    /\ \E r \in responses : r[2] = 200
    /\ BagToSet(found_paths) # {}

\* generate_urls has returned.
GenCalled == gen_args # <<>> /\ gen_out # <<>>

\* The base URL without its trailing slashes, stated from the claim: the
\* longest prefix that does not end in '/'.
StrippedLen(b) ==
    CHOOSE k \in 0..Len(b) :
        /\ k = 0 \/ b[k] # "/"
        /\ \A j \in (k + 1)..Len(b) : b[j] = "/"
Stripped(b) == SubSeq(b, 1, StrippedLen(b))

\* base/c, base/c/, and base/c.e, base/c.e/ for each e of E
VariantSet(b, c, E) ==
    {Stripped(b) \o <<"/">> \o c, Stripped(b) \o <<"/">> \o c \o <<"/">>}
    \cup {Stripped(b) \o <<"/">> \o c \o <<".">> \o e : e \in E}
    \cup {Stripped(b) \o <<"/">> \o c \o <<".">> \o e \o <<"/">> : e \in E}

PairwiseDistinct(s) == \A i, j \in 1..Len(s) : i # j => s[i] # s[j]

\* No extension is another extension followed by '/'.
NoSlashTwin(s) == \A i, j \in 1..Len(s) : s[i] # s[j] \o <<"/">>

\* C4 as claimed: whenever the extensions are pairwise distinct, the output
\* has 2 + 2 x |E| elements.
C4_Original ==
    (GenCalled /\ PairwiseDistinct(gen_args.extensions))
        => Len(gen_out) = 2 + 2 * Len(gen_args.extensions)

\* C4 (variant completeness), amended: the output holds exactly the URLs
\* base/c, base/c/, base/c.e and base/c.e/ for the extensions e of E, each
\* once, whether or not E repeats an extension; it has 2 + 2 x |E| elements
\* when the extensions are pairwise distinct and none of them is another one
\* followed by '/'.
C4_VariantCompleteness ==
    GenCalled =>
        /\ Range(gen_out) = VariantSet(gen_args.base_url, gen_args.path,
                                       Range(gen_args.extensions))
        /\ PairwiseDistinct(gen_out)
        /\ (PairwiseDistinct(gen_args.extensions)
               /\ NoSlashTwin(gen_args.extensions))
             => Len(gen_out) = 2 + 2 * Len(gen_args.extensions)
        /\ Len(gen_out) <= 2 + 2 * Len(gen_args.extensions)

\* C4 witness: two distinct extensions gave six URLs from a base URL that
\* ended in slashes.
C4_Witness ==
    /\ GenCalled
    /\ Len(gen_args.extensions) = 2
    /\ PairwiseDistinct(gen_args.extensions)
    /\ gen_args.base_url # Stripped(gen_args.base_url)
    /\ Len(gen_out) = 6

\* The URL u has '//' at the place where the stripped base b and the
\* candidate were joined: the joining '/' is preceded or followed by a '/'.
DoubleSlashAtJoin(u, b) ==
    LET n == Len(Stripped(b))
    IN  \/ n >= 1 /\ u[n] = "/"
        \/ Len(u) >= n + 2 /\ u[n + 2] = "/"

JoinedOnce(u, b, c) ==
    LET n == Len(Stripped(b))
    IN  /\ Len(u) >= n + 1 + Len(c)
        /\ SubSeq(u, 1, n + 1 + Len(c)) = Stripped(b) \o <<"/">> \o c
        /\ ~DoubleSlashAtJoin(u, b)

\* C5 as claimed: for every non-empty candidate, no produced URL has '//' at
\* the join point.
C5_Original ==
    (GenCalled /\ gen_args.path # <<>>)
        => \A k \in 1..Len(gen_out) :
               JoinedOnce(gen_out[k], gen_args.base_url, gen_args.path)

\* C5 (no double slash at the join point), amended: for every base URL,
\* whatever the number of its trailing slashes, and every non-empty candidate
\* that does not itself begin with '/', every produced URL is the stripped
\* base, one '/', the candidate and a suffix, and has no '//' at the join
\* point.
C5_NoDoubleSlash ==
    (GenCalled /\ gen_args.path # <<>> /\ Head(gen_args.path) # "/")
        => \A k \in 1..Len(gen_out) :
               JoinedOnce(gen_out[k], gen_args.base_url, gen_args.path)

\* C5 witness: a base URL ending in two slashes was joined to the candidate
\* "a" with an extension.
C5_Witness ==
    /\ GenCalled
    /\ gen_args.base_url = <<"h", "/", "/">>
    /\ gen_args.path = <<"a">>
    /\ gen_args.extensions = <<<<"p">>>>
    /\ <<"h", "/", "a", ".", "p">> \in Range(gen_out)

\* C6 (idempotent recording): whatever was given to found_paths.insert, and
\* however often, by whichever task, the set holds every pair that was
\* recorded exactly once, and its size is the number of distinct pairs
\* recorded.
C6_IdempotentRecording ==
    /\ BagToSet(found_paths) = BagToSet(recorded)
    /\ \A p \in BagToSet(recorded) : CopiesIn(p, found_paths) = 1
    /\ BagCardinality(found_paths) = Cardinality(BagToSet(recorded))

\* C6 witness: two tasks recorded the same (url, status) pair and the set
\* holds it once.
C6_Witness ==
    \E p \in BagToSet(recorded) :
        /\ CopiesIn(p, recorded) >= 2
        /\ CopiesIn(p, found_paths) = 1

\* Every URL the tasks of this scan are to probe.
AllUrls == UNION {Range(test_urls(t)) : t \in 1..Len(entries)}

\* The server answered as a fixed function of the URL: no URL got two
\* different outcomes.
ServerIsFunction ==
    \A r1, r2 \in responses : r1[1] = r2[1] => r1[2] = r2[2]

Ascending(paths) ==
    \A i, j \in 1..Len(paths) : i < j => StrLess(paths[i][1], paths[j][1])

\* C7 (order-independent final report): when the server's answer is a fixed
\* function of the URL, a finished scan has asked it about every URL of the
\* inputs, its finding set is the passing part of that function, and the
\* emitted sequence is the one strictly URL-ascending arrangement of that
\* set: both are fixed by the inputs and the server alone, whatever the
\* interleaving.
C7_OrderIndependent ==
    (orch = "done" /\ ServerIsFunction) =>
        /\ {r[1] : r \in responses} = AllUrls
        /\ BagToSet(found_paths) = Passing
        /\ IF Passing = {}
           THEN report = [kind |-> "nofindings", paths |-> <<>>]
           ELSE /\ report.kind = "found"
                /\ Range(report.paths) = Passing
                /\ Len(report.paths) = Cardinality(Passing)
                /\ Ascending(report.paths)

\* C7 witness: two tasks ran against such a server and the report lists at
\* least three findings.
C7_Witness ==
    /\ orch = "done"
    /\ ServerIsFunction
    /\ Len(entries) = 2
    /\ entries[1] # entries[2]
    /\ Len(report.paths) >= 3

\* C8 (progress total) as claimed: when the scan finishes normally the bar
\* has been advanced exactly as often as the total it was created with.
C8_ProgressTotal == orch = "done" => progress = bar_len

\* Iterations of `for test_url in test_urls` that task t has been through to
\* the end (the one it is in, or was in when it panicked, is not).
Completed(t) ==
    IF pc[t] = "idle" THEN 0
    ELSE Len(test_urls(t)) - Cardinality(todo[t]) - (IF cur[t] # 0 THEN 1 ELSE 0)

RECURSIVE SumCompleted(_)
SumCompleted(n) == IF n = 0 THEN 0 ELSE Completed(n) + SumCompleted(n - 1)

C9_Inv ==
    /\ \A t \in Tasks : pc[t] = "done" => (todo[t] = {} /\ cur[t] = 0)
    /\ \A p \in BagToSet(found_paths) : p[2] # 0 /\ p \in responses
    /\ orch = "err_join" => \E t \in Tasks : pc[t] = "panicked"
    /\ orch = "done" =>
           /\ report.kind \in {"nofindings", "found"}
           /\ \A t \in Tasks : pc[t] = "done"
           /\ {r[1] : r \in responses} = AllUrls

\* A step in which task t learns that its request failed.
RequestFailed(t) ==
    /\ pc[t] = "inflight"
    /\ pc'[t] # "inflight"
    /\ <<test_urls(t)[cur[t]], 0>> \in responses' \ responses

C9_Step ==
    \A t \in Tasks : RequestFailed(t) =>
        /\ pc'[t] \in {"inc", "panicked"}
        /\ todo'[t] = todo[t]
        /\ found_paths' = found_paths
        /\ orch' = orch
        /\ \A u \in Tasks \ {t} :
               pc'[u] = pc[u] /\ todo'[u] = todo[u] /\ cur'[u] = cur[u]

\* C9 (network errors do not abort the scan): a failed request leaves the
\* findings, the other tasks and fuzz_directory as they were, and its own task
\* with the same URLs still to probe; a task returns only after it has probed
\* every variant; no finding comes from a failed request; fuzz_directory
\* returns an error from the join only if a task panicked, and when it
\* returns success every URL was probed and the report was emitted.
C9_NetworkErrorsAbsorbed == []C9_Inv /\ [][C9_Step]_vars

\* C9 witness: the scan ended with its report although every request of one
\* URL failed, and another URL was found.
C9_Witness ==
    /\ orch = "done"
    /\ report.kind = "found"
    /\ \E r \in responses :
           /\ r[2] = 0
           /\ \A q \in responses : q[1] = r[1] => q[2] = 0

\* C10 (progress accounting per probe): the bar's position is always the
\* number of probes the tasks have been through to the end, whatever the
\* outcome of each (recorded, filtered out, failed): one increment per probe.
C10_ProgressPerProbe == progress = SumCompleted(Len(wordlist))

\* C10 witness: four probes are over, among them a failed one, a filtered one
\* and a recorded one, and the bar stands at four.
C10_Witness ==
    /\ progress = 4
    /\ \A t \in Tasks : pc[t] = "done"
    /\ config.status_codes # <<>>
    /\ \E r \in responses : r[2] = 0
    /\ \E r \in responses : r[2] = 404
    /\ BagToSet(recorded) # {}

\* The sequence is an arrangement of the set, each element once, in
\* non-descending order of the URLs.
SortedListOf(paths, found) ==
    /\ Range(paths) = found
    /\ Len(paths) = Cardinality(found)
    /\ \A i, j \in 1..Len(paths) : i < j => ~StrLess(paths[j][1], paths[i][1])

\* C11 (empty-result signal): nothing of the report exists before the
\* reporting step; once it is over, the 'no findings' diagnostic was emitted
\* if and only if the finding set is empty and the sorted list if and only if
\* it is not, one of the two and never both, whatever the silent and verbose
\* flags.
C11_EmptyResultSignal ==
    /\ orch # "done" => report = NoReport
    /\ orch = "done" =>
           /\ report.kind \in {"nofindings", "found"}
           /\ report.kind = "nofindings" <=> BagToSet(found_paths) = {}
           /\ report.kind = "found" <=> BagToSet(found_paths) # {}
           /\ report.kind = "nofindings" => report.paths = <<>>
           /\ report.kind = "found" =>
                  SortedListOf(report.paths, BagToSet(found_paths))

\* C11 witness: a silent, non-verbose scan whose requests were all answered
\* or failed without a finding ended with the 'no findings' diagnostic.
C11_Witness ==
    /\ orch = "done"
    /\ config.silent
    /\ ~config.verbose
    /\ responses # {}
    /\ report.kind = "nofindings"

\* C12 (fatal startup errors): when fuzz_directory has returned the error of
\* the client builder or of the wordlist, no semaphore and no permit exist, no
\* task was spawned, no request was sent or answered, nothing was recorded,
\* the bar was not created or advanced, and nothing was reported.
C12_FatalStartup ==
    orch = "err_startup" =>
        /\ permits = 0
        /\ ~held
        /\ next = 1
        /\ entries = <<>>
        /\ \A t \in Tasks : pc[t] = "idle" /\ sent[t] = EmptyBag
        /\ responses = {}
        /\ found_paths = EmptyBag
        /\ recorded = EmptyBag
        /\ bar_len = 0
        /\ progress = 0
        /\ report = NoReport

\* C12 witness: the scan of a two-line wordlist with two threads ended with a
\* startup error.
C12_Witness ==
    /\ orch = "err_startup"
    /\ Len(wordlist) = 2
    /\ config.threads = 2

SomeTaskPanicked == \E t \in Tasks : pc[t] = "panicked"

\* C13 (task-join error): fuzz_directory returns the join error only for a
\* task that panicked, and then without a report; and it never reaches the
\* reporting step, emits a report or returns success when a task of the scan
\* has panicked, whatever was found until then.
C13_TaskJoinError ==
    /\ orch = "err_join" =>
           /\ joined < Len(entries)
           /\ pc[joined + 1] = "panicked"
           /\ report = NoReport
    /\ SomeTaskPanicked =>
           /\ orch \notin {"report", "done"}
           /\ report = NoReport

\* C13 witness: the scan returned the join error of its second task after its
\* first task had recorded a finding.
C13_Witness ==
    /\ orch = "err_join"
    /\ joined = 1
    /\ BagToSet(found_paths) # {}
    /\ report = NoReport

\* fuzz_directory has returned.
Returned == orch \in {"done", "err_startup", "err_join"}

\* Every task has probed all its variants and returned, every handle was
\* awaited, and the report was emitted.
ScanComplete ==
    /\ orch = "done"
    /\ entries = wordlist
    /\ joined = Len(entries)
    /\ \A t \in Tasks :
           /\ pc[t] = "done"
           /\ todo[t] = {}
           /\ BagToSet(sent[t]) = 1..Len(test_urls(t))
    /\ report # NoReport

\* No startup error and no panic: the only things besides a request's outcome
\* that the environment decides.
NoFault == orch # "err_startup" /\ ~SomeTaskPanicked

\* C14 (scan completion): with a thread count >= 1, requests that return and
\* tasks that are run, fuzz_directory eventually returns; and when the
\* client is built, the wordlist is read and no task panics, every task
\* eventually is done with all its variants probed, every handle is joined
\* and the report is emitted.
C14_ScanCompletion ==
    /\ [](config.threads >= 1) => <>Returned
    /\ [](config.threads >= 1 /\ NoFault) => <>ScanComplete

\* C14 witness: with one thread, the second task had to wait for the first;
\* both are done and the report is out.
C14_Witness ==
    /\ ScanComplete
    /\ config.threads = 1
    /\ Len(entries) = 2

\* fuzz_directory is suspended in acquire_owned().await: an entry is left
\* and no permit is free.
OrchestratorBlocked ==
    /\ orch = "spawn"
    /\ next <= Len(entries)
    /\ ~held
    /\ permits = 0

C15_Inv ==
    (config.threads >= 1 /\ OrchestratorBlocked) =>
        Cardinality(RunningTasks) = config.threads

C15_Step ==
    /\ \A t \in Tasks : (pc[t] = "idle" /\ pc'[t] # "idle") =>
           /\ held /\ ~held'
           /\ permits' = permits
           /\ pc'[t] = "loop"
           /\ t = next
    /\ permits' < permits =>
           /\ orch = "spawn" /\ ~held /\ held'
           /\ pc' = pc

C16_TotalUnits ==
    SemaphoreCreated =>
        bar_len = Len(entries) * (2 + 2 * Len(config.extensions))

C17_Inv ==
    /\ orch \in {"report", "done"} =>
           /\ joined = Len(entries)
           /\ \A t \in Tasks : pc[t] = "done"
    /\ lock = <<"orch", 0>> <=> orch = "report"
    /\ orch = "done" =>
           /\ Range(report.paths) = BagToSet(recorded)
           /\ report.kind = "nofindings" <=> BagToSet(recorded) = {}

C17_Step ==
    orch \in {"report", "done"} =>
        /\ found_paths' = found_paths
        /\ recorded' = recorded
        /\ pc' = pc

\* C17 (snapshot only after join): fuzz_directory holds the lock of the
\* finding set, and reads the set, only when every handle was awaited and
\* every task is done; from then on no task moves and the set does not change,
\* and what is reported is every pair that was recorded during the scan.
C17_SnapshotAfterJoin == []C17_Inv /\ [][C17_Step]_vars

\* C17 witness: two tasks ran side by side, both are done, and the report
\* lists the two or more pairs they recorded.
C17_Witness ==
    /\ orch = "done"
    /\ config.threads = 2
    /\ Len(entries) = 2
    /\ Len(report.paths) >= 2
    /\ \A p \in BagToSet(recorded) : p \in Range(report.paths)

\* C18 (minimal lock scope): a task holds the lock of the finding set exactly
\* in the insert block: it then has in hand the status of a response it
\* received and the filter accepted, and it holds the lock neither while its
\* request is in flight, nor when it advances the bar, nor when it starts the
\* next request.
C18_MinimalLockScope ==
    \A t \in Tasks :
        /\ lock = <<"task", t>> <=> pc[t] = "locked"
        /\ pc[t] = "locked" =>
               /\ st[t] # 0
               /\ <<test_urls(t)[cur[t]], st[t]>> \in Passing
        /\ pc[t] \in {"loop", "inflight", "lock", "inc", "done", "panicked"}
               => lock # <<"task", t>>

\* C18 witness: a task holds the lock while another task's request is in
\* flight.
C18_Witness ==
    \E t, u \in Tasks :
        /\ lock = <<"task", t>>
        /\ pc[t] = "locked"
        /\ pc[u] = "inflight"

\* C19 (exactly-once probing within a task): the URLs of a task are pairwise
\* different; at every moment the task has requested each of them once if it
\* has left it and never otherwise; it has at most one request under way; and
\* when it is done it has requested every one of them exactly once.
C19_ExactlyOnce ==
    \A t \in Tasks : pc[t] # "idle" =>
        /\ PairwiseDistinct(test_urls(t))
        /\ \A k \in 1..Len(test_urls(t)) :
               CopiesIn(k, sent[t]) = IF k \in todo[t] THEN 0 ELSE 1
        /\ BagToSet(sent[t]) \subseteq 1..Len(test_urls(t))
        /\ cur[t] # 0 => (cur[t] \notin todo[t] /\ CopiesIn(cur[t], sent[t]) = 1)
        /\ pc[t] \in {"inflight", "lock", "locked", "inc"} => cur[t] # 0
        /\ pc[t] = "done" =>
               \A k \in 1..Len(test_urls(t)) : CopiesIn(k, sent[t]) = 1

\* C19 witness: a task with four variants is done; one of its requests had
\* failed and one had been recorded.
C19_Witness ==
    \E t \in Tasks :
        /\ pc[t] = "done"
        /\ Len(test_urls(t)) = 4
        /\ BagCardinality(sent[t]) = 4
        /\ \E r \in responses : r[2] = 0
        /\ BagToSet(recorded) # {}

\* C20 (reproducible report order) as claimed: the sequence that the results
\* display emits is fixed by the finding set: for the set it reads there is
\* one sequence it can emit.
C20_Reproducible ==
    orch = "report" =>
        Cardinality(sorted_paths(BagToSet(found_paths))) = 1

\* fuzz_directory runs with a thread count of 0, has read a non-empty wordlist
\* and created the semaphore.
C21_Stuck ==
    /\ orch # "main"
    /\ config.threads = 0
    /\ SemaphoreCreated
    /\ Len(entries) > 0

C21_Inv ==
    /\ (orch # "main" /\ matches.threads = <<"0">>) => config.threads = 0
    /\ C21_Stuck =>
           /\ OrchestratorBlocked
           /\ next = 1
           /\ \A t \in Tasks : pc[t] = "idle" /\ sent[t] = EmptyBag
           /\ responses = {}
           /\ found_paths = EmptyBag
           /\ report = NoReport
           /\ ~Returned

\* C21 (thread count 0): the argument "0" is parsed into config.threads = 0;
\* once fuzz_directory has then read a non-empty wordlist it waits at the
\* first acquire, with no task spawned, no request sent, nothing reported and
\* no return, and no step is ever taken from that state.
C21_ZeroThreadsHang == []C21_Inv /\ [][~C21_Stuck]_vars

\* C21 witness: -t 0 with a wordlist of two lines, fuzz_directory waiting at
\* the first acquire.
C21_Witness ==
    /\ C21_Stuck
    /\ matches.threads = <<"0">>
    /\ Len(entries) = 2
    /\ OrchestratorBlocked

StatusSupplied == matches.status_codes # <<>>

NoneParses ==
    \A piece \in Range(split(matches.status_codes[1], ",")) :
        from_str(piece, U16_MAX) = <<>>

Succeeded == {r \in responses : r[2] # 0}

\* C22 (unparseable status list): when a status list is supplied and none of
\* its entries parses, config.status_codes is empty and a finished scan has
\* recorded and reported every response it received, whatever the status;
\* when no list is supplied the filter is the default codes and only
\* responses with one of them are recorded; a supplied list never brings in
\* a code it does not name.
C22_UnparseableAcceptsAll ==
    orch # "main" =>
        /\ (StatusSupplied /\ NoneParses) =>
               /\ config.status_codes = <<>>
               /\ BagToSet(found_paths) \subseteq Succeeded
               /\ orch = "done" =>
                      /\ BagToSet(found_paths) = Succeeded
                      /\ Range(report.paths) = Succeeded
        /\ ~StatusSupplied =>
               /\ config.status_codes = DefaultStatusCodes
               /\ orch = "done" =>
                      BagToSet(found_paths) =
                          {r \in responses : r[2] \in Range(DefaultStatusCodes)}
        /\ StatusSupplied =>
               \A k \in 1..Len(config.status_codes) :
                   \E piece \in Range(split(matches.status_codes[1], ",")) :
                       from_str(piece, U16_MAX) = <<config.status_codes[k]>>

\* C22 witness: -c x,y ; the scan is done and its report lists a 404.
C22_Witness ==
    /\ orch = "done"
    /\ matches.status_codes = <<<<"x", ",", "y">>>>
    /\ config.status_codes = <<>>
    /\ \E p \in Range(report.paths) : p[2] = 404

=============================================================================
